---- MODULE Spec2Model ----
(***************************************************************************)
(* A model of the plan-negotiation loop of the AI dashboard analyst:       *)
(* ai_analysis.py (intent, clarification, plan generation, revision,       *)
(* deterministic fallback), state.py (AnalystState) and the turn loop of   *)
(* app.py.  The language model is the environment: every call to           *)
(* ollama.chat is answered by a response drawn from a bounded set.         *)
(***************************************************************************)
EXTENDS Naturals, Sequences, FiniteSets, TLC

(***************************************************************************)
(* Bounds of the model.                                                    *)
(***************************************************************************)
\* longest chart list and longest KPI list in a model reply
MaxItems == 2
\* longest unanswered-questions queue a caller hands to ask_clarification
MaxQueue == 2
\* most calls of ask_clarification followed in one behaviour
MaxCalls == 3

(***************************************************************************)
(* Python values.  Optional[...] is a sequence of length 0 (None) or 1.    *)
(* A JSON field that is absent, null, a number or a list is a sentinel     *)
(* string that is no column name and no text the model uses.               *)
(***************************************************************************)
None == <<>>
Some(v) == <<v>>
IsNone(o) == o = <<>>
The(o) == o[1]

Missing == "<missing>"
Null == "<null>"
NonStr == "<number>"
Unhashable == "<list>"

\* dict.get(key): an absent key and a null both read as None
Get(v) == IF v = Missing THEN Null ELSE v
\* dict.get(key, default)
GetDefault(v, d) == IF v = Missing THEN d ELSE v
\* truthiness of a JSON scalar (the number stands for a non-zero one)
Truthy(v) == v \notin {Missing, Null, ""}
\* whether str methods such as .lower() exist on the value
IsStr(v) == v \notin {Missing, Null, NonStr, Unhashable}
\* str.lower(), kept symbolic: the wrapped text is not the text itself
LowerText(s) == <<"lower", s>>

RECURSIVE SelectSeq2(_, _)
\* list comprehension order: the elements of s whose index is in keep
SelectSeq2(s, keep) ==
    IF s = <<>> THEN <<>>
    ELSE LET rest == SelectSeq2(Tail(s), {i - 1 : i \in keep \ {1}})
         IN IF 1 \in keep THEN <<Head(s)>> \o rest ELSE rest

\* s[:n]
Take(s, n) == IF Len(s) <= n THEN s ELSE SubSeq(s, 1, n)

\* sequences over S of length at most n
SeqUpTo(S, n) == UNION {[1..k -> S] : k \in 0..n}

(***************************************************************************)
(* Datasets (pandas DataFrames): an ordered list of named, typed columns.  *)
(***************************************************************************)
Col(n, d) == [name |-> n, dtype |-> d]

\* test_app.py sample_df
SampleDf ==
    <<Col("Age", "int64"), Col("Fare", "float64"), Col("Survived", "int64"),
      Col("PassengerId", "int64"), Col("Sex", "object")>>
\* every column categorical
AllCatDf == <<Col("Sex", "object"), Col("City", "object")>>
\* every column numeric
OnlyNumDf == <<Col("Fare", "float64"), Col("Age", "int64")>>
\* one numeric column and more than three categorical ones
ManyCatDf ==
    <<Col("Sex", "object"), Col("City", "object"), Col("Port", "object"),
      Col("Cabin", "object"), Col("Fare", "float64")>>
\* the column named Fare holds text here
FareTextDf == <<Col("Fare", "object"), Col("Flag", "bool")>>
\* a file with no columns
EmptyDf == <<>>

Datasets == {SampleDf, AllCatDf, OnlyNumDf, ManyCatDf, FareTextDf, EmptyDf}

\* df.columns
Columns(df) == {df[i].name : i \in 1..Len(df)}
\* df[col].dtype
DtypeOf(df, c) == df[CHOOSE i \in 1..Len(df) : df[i].name = c].dtype
\* x in df.columns: hashing a list raises TypeError, anything else is a lookup
InColumns(v, df) == v \in Columns(df)
\* pd.api.types.is_numeric_dtype: bool counts as numeric
is_numeric_dtype(d) == d \in {"int64", "float64", "bool"}
\* df.select_dtypes(include="number").columns.tolist(): bool is not a number
NumberCols(df) ==
    LET keep == {i \in 1..Len(df) : df[i].dtype \in {"int64", "float64"}}
        sel == SelectSeq2(df, keep)
    IN [i \in 1..Len(sel) |-> sel[i].name]
\* df.select_dtypes(exclude="number").columns.tolist()
NonNumberCols(df) ==
    LET keep == {i \in 1..Len(df) : df[i].dtype \notin {"int64", "float64"}}
        sel == SelectSeq2(df, keep)
    IN [i \in 1..Len(sel) |-> sel[i].name]

(***************************************************************************)
(* Plans: charts, KPIs and the plan dictionary.                            *)
(***************************************************************************)
Chart(t, x, y, title, purpose) ==
    [type |-> t, x_axis |-> x, y_axis |-> y, title |-> title, purpose |-> purpose]
Kpi(label, column, agg, unit, fmt) ==
    [label |-> label, column |-> column, aggregation |-> agg, unit |-> unit,
     format |-> fmt]
Plan(name, domain, conf, vis, kpis, summary) ==
    [template_name |-> name, domain |-> domain, confidence |-> conf,
     visualizations |-> vis, kpis |-> kpis, analysis_summary |-> summary]

(***************************************************************************)
(* dynamic_fallback: the deterministic plan built from the column types.   *)
(***************************************************************************)
FallbackCharts(df) ==
    LET numeric_cols == NumberCols(df)
        categorical_cols == NonNumberCols(df)
        cats == Take(categorical_cols, 3)
        nums == Take(numeric_cols, 3)
    IN IF categorical_cols # <<>> /\ numeric_cols # <<>>
       THEN [i \in 1..Len(cats) |->
                Chart("bar", cats[i], numeric_cols[1],
                      numeric_cols[1] \o " by " \o cats[i],
                      "Shows " \o numeric_cols[1] \o " distribution by " \o cats[i])]
       ELSE IF numeric_cols # <<>>
       THEN [i \in 1..Len(nums) |->
                Chart("histogram", nums[i], nums[i],
                      "Distribution of " \o nums[i], "Histogram of " \o nums[i])]
       ELSE <<>>

FallbackKpis(df) ==
    LET nums == Take(NumberCols(df), 3)
    IN [i \in 1..Len(nums) |-> Kpi("Total " \o nums[i], nums[i], "sum", "", Null)]

dynamic_fallback(df) ==
    Plan("Dynamic Fallback Dashboard", "Generic", "0.0",
         FallbackCharts(df), FallbackKpis(df), None)

(***************************************************************************)
(* The language model (ollama.chat) as the environment.  A reply either    *)
(* raises, lacks message/content, is text without a {...} span, is a span  *)
(* json.loads rejects, or is a JSON object.  A key of the object that is   *)
(* absent is None here.                                                    *)
(***************************************************************************)
JsonObj(vis, kpis) ==
    [template_name |-> "AI Dashboard", domain |-> "Generic", confidence |-> "0.95",
     visualizations |-> vis, kpis |-> kpis, analysis_summary |-> None]
Reply(kind, obj) == [kind |-> kind, obj |-> obj]
NoObj == JsonObj(None, None)

\* charts a reply may propose
GoodChart == Chart("bar", "Sex", "Fare", "Fare by Sex", "Compare fares")
NonStrPurposeChart == Chart("bar", "Sex", "Fare", "Untitled", NonStr)
NullTitleChart == Chart("pie", "City", "Fare", Null, Missing)
UnhashableChart == Chart("scatter", Unhashable, "Fare", Missing, Missing)
ChartPool == {GoodChart, NonStrPurposeChart, NullTitleChart, UnhashableChart}
\* KPIs a reply may propose
SumFare == Kpi("Total Fare", "Fare", "sum", Missing, Null)
SumSex == Kpi("Sum of Sex", "Sex", "sum", "", Null)
CountSex == Kpi("Passengers", "Sex", "count", "people", Null)
KpiPool == {SumFare, SumSex, CountSex}

JsonObjects ==
    { JsonObj(Some(v), Some(k)) : v \in SeqUpTo(ChartPool, MaxItems),
                                  k \in SeqUpTo(KpiPool, MaxItems) }
    \cup { JsonObj(None, Some(k)) : k \in SeqUpTo(KpiPool, 1) }
    \cup { JsonObj(Some(v), None) : v \in SeqUpTo(ChartPool, 1) }

FailureReplies ==
    { Reply("raise", NoObj), Reply("malformed", NoObj), Reply("nojson", NoObj),
      Reply("badjson", NoObj) }
Replies == FailureReplies \cup { Reply("json", o) : o \in JsonObjects }

(***************************************************************************)
(* The validation filter, written twice in the source with the same text   *)
(* (create_dashboard_plan and revise_dashboard_plan).                      *)
(***************************************************************************)
\* the test of one chart raises (a list is unhashable); "and" short-circuits
ChartRaises(c, df) ==
    \/ Get(c.x_axis) = Unhashable
    \/ InColumns(Get(c.x_axis), df) /\ Get(c.y_axis) = Unhashable
ChartKept(c, df) == InColumns(Get(c.x_axis), df) /\ InColumns(Get(c.y_axis), df)

KpiRaises(k, df) == Get(k.column) = Unhashable
KpiKept(k, df) ==
    /\ InColumns(Get(k.column), df)
    /\ ~ (Get(k.aggregation) # "count"
          /\ ~ is_numeric_dtype(DtypeOf(df, Get(k.column))))
\* kpi.setdefault("unit", "")
SetDefaultUnit(k) == [k EXCEPT !.unit = GetDefault(k.unit, "")]

FilterCharts(charts, df) ==
    SelectSeq2(charts, {i \in 1..Len(charts) : ChartKept(charts[i], df)})
FilterKpis(kpis, df) ==
    LET kept == SelectSeq2(kpis, {i \in 1..Len(kpis) : KpiKept(kpis[i], df)})
    IN [i \in 1..Len(kept) |-> SetDefaultUnit(kept[i])]
FilterRaises(charts, kpis, df) ==
    \/ \E i \in 1..Len(charts) : ChartRaises(charts[i], df)
    \/ \E i \in 1..Len(kpis) : KpiRaises(kpis[i], df)

\* dict.get(key, []) of a list-valued key
ListOf(o) == IF IsNone(o) THEN <<>> ELSE The(o)

(***************************************************************************)
(* create_dashboard_plan.                                                  *)
(***************************************************************************)
\* the dictionary substituted when the reply has no usable object
PlaceholderObj ==
    [template_name |-> "Fallback Dashboard", domain |-> "Dataset", confidence |-> "0.9",
     visualizations |-> Some(<<>>), kpis |-> Some(<<>>), analysis_summary |-> None]

\* ai_output after parsing: None when no span matches or json.loads fails
ParsedObj(reply) ==
    IF reply.kind = "json" THEN Some(reply.obj) ELSE None
\* "not ai_output or 'visualizations' not in ai_output"
UsePlaceholder(parsed) == IsNone(parsed) \/ IsNone(The(parsed).visualizations)

\* a variant that falls back only when both filtered lists are empty
TryModelPlan_BothEmpty(df, reply) ==
    LET parsed == ParsedObj(reply)
        ai_output == IF UsePlaceholder(parsed) THEN PlaceholderObj ELSE The(parsed)
        charts == ListOf(ai_output.visualizations)
        kpis == ListOf(ai_output.kpis)
        filtered_charts == FilterCharts(charts, df)
        filtered_kpis == FilterKpis(kpis, df)
    IN IF reply.kind \in {"raise", "malformed"} \/ FilterRaises(charts, kpis, df)
       THEN None
       ELSE IF filtered_charts = <<>> /\ filtered_kpis = <<>>
       THEN None
       ELSE Some(Plan(ai_output.template_name, ai_output.domain,
                      ai_output.confidence, filtered_charts, filtered_kpis,
                      ai_output.analysis_summary))

\* the try block: the plan it leaves in ai_output, None when it raises
TryModelPlan(df, reply) ==
    LET parsed == ParsedObj(reply)
        ai_output == IF UsePlaceholder(parsed) THEN PlaceholderObj ELSE The(parsed)
        charts == ListOf(ai_output.visualizations)
        kpis == ListOf(ai_output.kpis)
        filtered_charts == FilterCharts(charts, df)
        filtered_kpis == FilterKpis(kpis, df)
    IN IF reply.kind \in {"raise", "malformed"} \/ FilterRaises(charts, kpis, df)
       THEN None
       ELSE IF filtered_charts = <<>> \/ filtered_kpis = <<>>
       THEN None
       ELSE Some(Plan(ai_output.template_name, ai_output.domain,
                      ai_output.confidence, filtered_charts, filtered_kpis,
                      ai_output.analysis_summary))

\* chart.get("purpose") or chart.get("title", "")
PurposeOf(c) ==
    IF Truthy(Get(c.purpose)) THEN Get(c.purpose) ELSE GetDefault(c.title, "")
\* purpose.lower() raises AttributeError on a value that is no string
SummaryRaises(plan) ==
    \E i \in 1..Len(plan.visualizations) : ~ IsStr(PurposeOf(plan.visualizations[i]))

Approach ==
    "The dataset was summarized to understand available columns and data types. "
    \o "KPIs were selected to capture key aggregates, while charts were chosen to "
    \o "highlight trends and relationships relevant to the user's goal."
ChartReason(c) == [about |-> "Chart", name |-> Get(c.title), text |-> LowerText(PurposeOf(c))]
KpiReason(k) ==
    [about |-> "KPI", name |-> Get(k.label),
     text |-> <<Get(k.aggregation), Get(k.column)>>]
AnalysisSummary(plan, user_goal) ==
    [user_question |-> user_goal, approach |-> Approach,
     reasoning |-> [i \in 1..Len(plan.visualizations) |->
                        ChartReason(plan.visualizations[i])]
                   \o [i \in 1..Len(plan.kpis) |-> KpiReason(plan.kpis[i])]]

\* the exception caught by "except Exception" selects dynamic_fallback; the
\* summary is attached outside the try block, so what raises there escapes
create_dashboard_plan(df, user_goal, reply) ==
    LET attempt == TryModelPlan(df, reply)
        ai_output == IF IsNone(attempt) THEN dynamic_fallback(df) ELSE The(attempt)
    IN IF SummaryRaises(ai_output)
       THEN [raised |-> TRUE, ret |-> None, contacted |-> TRUE]
       ELSE [raised |-> FALSE, contacted |-> TRUE,
             ret |-> Some([ai_output EXCEPT
                              !.analysis_summary =
                                  Some(AnalysisSummary(ai_output, user_goal))])]

(***************************************************************************)
(* revise_dashboard_plan.                                                  *)
(***************************************************************************)
\* a variant that keeps the old plan when either filtered list is empty
TryRevision_EitherEmpty(df, reply) ==
    LET revised_plan == reply.obj
        charts == ListOf(revised_plan.visualizations)
        kpis == ListOf(revised_plan.kpis)
        valid_visuals == FilterCharts(charts, df)
        valid_kpis == FilterKpis(kpis, df)
    IN IF reply.kind # "json" \/ FilterRaises(charts, kpis, df)
       THEN None
       ELSE IF valid_visuals = <<>> \/ valid_kpis = <<>>
       THEN None
       ELSE Some(Plan(revised_plan.template_name, revised_plan.domain,
                      revised_plan.confidence, valid_visuals, valid_kpis,
                      revised_plan.analysis_summary))

\* the try block of the reviser: None when it raises or keeps nothing
TryRevision(df, reply) ==
    LET revised_plan == reply.obj
        charts == ListOf(revised_plan.visualizations)
        kpis == ListOf(revised_plan.kpis)
        valid_visuals == FilterCharts(charts, df)
        valid_kpis == FilterKpis(kpis, df)
    IN IF reply.kind # "json" \/ FilterRaises(charts, kpis, df)
       THEN None
       ELSE IF valid_visuals = <<>> /\ valid_kpis = <<>>
       THEN None
       ELSE Some(Plan(revised_plan.template_name, revised_plan.domain,
                      revised_plan.confidence, valid_visuals, valid_kpis,
                      revised_plan.analysis_summary))

\* a variant without the safety check on a missing plan
revise_NoPlanCheck(df, existing_plan, reply) ==
    IF IsNone(df)
    THEN [raised |-> FALSE, ret |-> existing_plan, contacted |-> FALSE]
    ELSE LET revision == TryRevision(The(df), reply)
         IN [raised |-> FALSE, contacted |-> TRUE,
             ret |-> IF IsNone(revision) THEN existing_plan ELSE revision]

\* df and existing_plan are Optional; the result is the plan handed back
revise_dashboard_plan(df, existing_plan, reply) ==
    IF IsNone(df) \/ IsNone(existing_plan)
    THEN [raised |-> FALSE, ret |-> existing_plan, contacted |-> FALSE]
    ELSE LET revision == TryRevision(The(df), reply)
         IN [raised |-> FALSE, contacted |-> TRUE,
             ret |-> IF IsNone(revision) THEN existing_plan ELSE revision]

(***************************************************************************)
(* User messages are strings of characters; "k in msg.lower()" is          *)
(* computed on them.                                                       *)
(***************************************************************************)
UpperCase ==
    <<"A", "B", "C", "D", "E", "F", "G", "H", "I", "J", "K", "L", "M", "N", "O", "P", "Q", "R", "S", "T", "U", "V", "W", "X", "Y", "Z">>
LowerCase ==
    <<"a", "b", "c", "d", "e", "f", "g", "h", "i", "j", "k", "l", "m", "n", "o", "p", "q", "r", "s", "t", "u", "v", "w", "x", "y", "z">>
LowerChar(c) ==
    IF \E i \in 1..Len(UpperCase) : UpperCase[i] = c
    THEN LowerCase[CHOOSE i \in 1..Len(UpperCase) : UpperCase[i] = c]
    ELSE c
\* str.lower()
Lower(s) == [i \in 1..Len(s) |-> LowerChar(s[i])]
\* needle in hay
Contains(hay, needle) ==
    \E i \in 0..Len(hay) :
        i + Len(needle) <= Len(hay) /\ SubSeq(hay, i + 1, i + Len(needle)) = needle

\* "Show fare by sex"
MsgSpecific ==
    <<"S", "h", "o", "w", " ", "f", "a", "r", "e", " ", "b", "y", " ", "s", "e", "x">>
\* "What is Important here"
MsgVague ==
    <<"W", "h", "a", "t", " ", "i", "s", " ", "I", "m", "p", "o", "r", "t", "a", "n", "t", " ", "h", "e", "r", "e">>
\* "Please CLARIFY that"
MsgClarify ==
    <<"P", "l", "e", "a", "s", "e", " ", "C", "L", "A", "R", "I", "F", "Y", " ", "t", "h", "a", "t">>
\* "Revise the best chart"
MsgRevise ==
    <<"R", "e", "v", "i", "s", "e", " ", "t", "h", "e", " ", "b", "e", "s", "t", " ", "c", "h", "a", "r", "t">>
\* "render it"
MsgRender ==
    <<"r", "e", "n", "d", "e", "r", " ", "i", "t">>
\* "Start over with fares"
MsgStartOver ==
    <<"S", "t", "a", "r", "t", " ", "o", "v", "e", "r", " ", "w", "i", "t", "h", " ", "f", "a", "r", "e", "s">>
Messages == {MsgSpecific, MsgVague, MsgClarify, MsgRevise, MsgRender, MsgStartOver}

KwClarify == <<"c", "l", "a", "r", "i", "f", "y">>
KwRevise == <<"r", "e", "v", "i", "s", "e">>
KwRender == <<"r", "e", "n", "d", "e", "r">>
vague_keywords ==
    { <<"f", "i", "r", "s", "t">>,
      <<"i", "m", "p", "o", "r", "t", "a", "n", "t">>,
      <<"b", "e", "s", "t">>,
      <<"i", "n", "t", "e", "r", "e", "s", "t", "i", "n", "g">>,
      <<"w", "h", "a", "t", " ", "t", "o", " ", "l", "o", "o", "k", " ", "a", "t">>,
      <<"h", "e", "l", "p", " ", "m", "e", " ", "u", "n", "d", "e", "r", "s", "t", "a", "n", "d">> }
triggers ==
    { <<"s", "t", "a", "r", "t", " ", "o", "v", "e", "r">>,
      <<"n", "e", "w", " ", "d", "a", "s", "h", "b", "o", "a", "r", "d">>,
      <<"d", "i", "f", "f", "e", "r", "e", "n", "t", " ", "d", "a", "t", "a", "s", "e", "t">>,
      <<"s", "c", "r", "a", "t", "c", "h">>,
      <<"c", "o", "m", "p", "l", "e", "t", "e", "l", "y", " ", "n", "e", "w">> }

parse_intent(user_msg) ==
    IF Contains(Lower(user_msg), KwClarify) THEN "clarify"
    ELSE IF Contains(Lower(user_msg), KwRevise) THEN "revise"
    ELSE IF Contains(Lower(user_msg), KwRender) THEN "render"
    ELSE "analyze"
needs_clarification(user_msg) == \E k \in vague_keywords : Contains(Lower(user_msg), k)
wants_new_dashboard(msg) == \E t \in triggers : Contains(Lower(msg), t)

\* the three classifiers tabulated over the messages of the model
IntentOf == [m \in Messages |-> parse_intent(m)]
IsVague == [m \in Messages |-> needs_clarification(m)]
WantsNew == [m \in Messages |-> wants_new_dashboard(m)]

(***************************************************************************)
(* ask_clarification.                                                      *)
(***************************************************************************)
\* AnalystState.dataset_summary starts as an empty dict
EmptySummary == "{}"
\* summarize_dataset builds its dictionary and ends in "pass": it returns None
summarize_dataset(df) == "None"
\* "if not summary": the empty dict and None are both falsy
SummaryFalsy(summary) == summary \in {"{}", "None"}

FallbackQuestion == "Could you clarify exactly what you want to know about the dataset?"
Questions == {"Which column matters most?", "Which metric do you mean?"}
\* the content of a reply, as its lines
ClarTexts ==
    { <<"Which column matters most?">>,
      <<"", "Which metric do you mean?", "It decides the chart.">>,
      <<"">> }
ClarReply(kind, lines) == [kind |-> kind, lines |-> lines]
ClarReplies ==
    { ClarReply("raise", <<>>), ClarReply("malformed", <<>>) }
    \cup { ClarReply("text", t) : t \in ClarTexts }

RECURSIVE LStrip(_)
\* str.strip() drops the blank lines in front
LStrip(lines) ==
    IF lines # <<>> /\ Head(lines) = "" THEN LStrip(Tail(lines)) ELSE lines
\* raw.strip().split("\n")[0]
FirstLine(lines) == IF LStrip(lines) = <<>> THEN "" ELSE Head(LStrip(lines))

\* a variant that pops the newest question: list.pop() for list.pop(0)
ask_clarification_Lifo(queue, summary, df, reply) ==
    IF queue # <<>>
    THEN [ret |-> queue[Len(queue)], queue |-> SubSeq(queue, 1, Len(queue) - 1),
          summary |-> summary, contacted |-> FALSE]
    ELSE LET summary2 == IF SummaryFalsy(summary) THEN summarize_dataset(df)
                         ELSE summary
         IN IF reply.kind = "text"
            THEN [ret |-> FirstLine(reply.lines),
                  queue |-> Append(queue, FirstLine(reply.lines)),
                  summary |-> summary2, contacted |-> TRUE]
            ELSE [ret |-> FallbackQuestion, queue |-> queue, summary |-> summary2,
                  contacted |-> TRUE]

\* a variant that records the generic question in the queue as well
ask_clarification_QueuesFallback(queue, summary, df, reply) ==
    IF queue # <<>>
    THEN [ret |-> Head(queue), queue |-> Tail(queue), summary |-> summary,
          contacted |-> FALSE]
    ELSE LET summary2 == IF SummaryFalsy(summary) THEN summarize_dataset(df)
                         ELSE summary
         IN IF reply.kind = "text"
            THEN [ret |-> FirstLine(reply.lines),
                  queue |-> Append(queue, FirstLine(reply.lines)),
                  summary |-> summary2, contacted |-> TRUE]
            ELSE [ret |-> FallbackQuestion, queue |-> Append(queue, FallbackQuestion),
                  summary |-> summary2, contacted |-> TRUE]

\* a variant that returns the model's question without recording it
ask_clarification_NoAppend(queue, summary, df, reply) ==
    IF queue # <<>>
    THEN [ret |-> Head(queue), queue |-> Tail(queue), summary |-> summary,
          contacted |-> FALSE]
    ELSE LET summary2 == IF SummaryFalsy(summary) THEN summarize_dataset(df)
                         ELSE summary
         IN IF reply.kind = "text"
            THEN [ret |-> FirstLine(reply.lines), queue |-> queue,
                  summary |-> summary2, contacted |-> TRUE]
            ELSE [ret |-> FallbackQuestion, queue |-> queue, summary |-> summary2,
                  contacted |-> TRUE]

\* [ret, queue, summary, contacted]: the question returned, the queue and the
\* cached summary afterwards, whether ollama.chat was called
ask_clarification(queue, summary, df, reply) ==
    IF queue # <<>>
    THEN [ret |-> Head(queue), queue |-> Tail(queue), summary |-> summary,
          contacted |-> FALSE]
    ELSE LET summary2 == IF SummaryFalsy(summary) THEN summarize_dataset(df)
                         ELSE summary
         IN IF reply.kind = "text"
            THEN [ret |-> FirstLine(reply.lines),
                  queue |-> Append(queue, FirstLine(reply.lines)),
                  summary |-> summary2, contacted |-> TRUE]
            ELSE [ret |-> FallbackQuestion, queue |-> queue, summary |-> summary2,
                  contacted |-> TRUE]

(***************************************************************************)
(* The state: AnalystState (state.py), what the last script run handed to  *)
(* render_dashboard, a record of the last script run, and a record of the  *)
(* last direct call of a function of ai_analysis.py.                       *)
(***************************************************************************)
VARIABLES
    df,                      \* state.df: Optional[DataFrame]
    dataset_summary,         \* state.dataset_summary
    user_goal,               \* state.user_goal: Optional[str]
    unanswered_questions,    \* state.unanswered_questions
    awaiting_clarification,  \* state.awaiting_clarification
    dashboard_plan,          \* state.dashboard_plan: Optional[dict]
    rendered,                \* the (df, plan) of the last render_dashboard call
    last,                    \* the last script run: what ran and what it returned
    call,                    \* the last direct call: arguments and result
    queue0,                  \* the queue the behaviour started with
    asked                    \* the results of the ask_clarification calls so far

vars ==
    <<df, dataset_summary, user_goal, unanswered_questions, awaiting_clarification,
      dashboard_plan, rendered, last, call, queue0, asked>>
state_vars ==
    <<df, dataset_summary, user_goal, unanswered_questions, awaiting_clarification,
      dashboard_plan>>

Run(op, called, msg, onDf, ret, raised, contacted, question) ==
    [op |-> op, called |-> called, msg |-> msg, df |-> onDf, ret |-> ret,
     raised |-> raised, contacted |-> contacted, question |-> question]
NoRun == Run("init", "", None, None, None, FALSE, FALSE, "")

NoReply == Reply("none", NoObj)
NoClar == ClarReply("none", <<>>)
Call(fn, onDf, prior, reply, clar, ret, raised, contacted, question) ==
    [fn |-> fn, df |-> onDf, prior |-> prior, reply |-> reply, clar |-> clar,
     ret |-> ret, raised |-> raised, contacted |-> contacted, question |-> question]
NoCall == Call("none", None, None, NoReply, NoClar, None, FALSE, FALSE, "")

\* app.py line 134: "if state.dashboard_plan: render_dashboard(state.df, plan)";
\* a run that raised before that line renders nothing
Render(d, plan, raised) ==
    IF raised \/ IsNone(plan) THEN None ELSE Some([df |-> d, plan |-> The(plan)])

(***************************************************************************)
(* The Streamlit session (app.py).                                         *)
(***************************************************************************)
\* the files uploaded, the replies and the clarification replies of a session
SessionDatasets == {SampleDf, FareTextDf}
SessionReplies ==
    { Reply("raise", NoObj), Reply("nojson", NoObj),
      Reply("json", JsonObj(Some(<<GoodChart>>), Some(<<SumFare>>))),
      Reply("json", JsonObj(Some(<<GoodChart>>), Some(<<SumSex, CountSex>>))),
      Reply("json", JsonObj(Some(<<NonStrPurposeChart>>), Some(<<SumFare>>))),
      Reply("json", JsonObj(Some(<<>>), Some(<<SumFare>>))) }
SessionClarReplies ==
    { ClarReply("raise", <<>>), ClarReply("text", <<"Which column matters most?">>) }

\* AnalystState() and the session defaults
Init ==
    /\ df = None
    /\ dataset_summary = EmptySummary
    /\ user_goal = None
    /\ unanswered_questions = <<>>
    /\ awaiting_clarification = FALSE
    /\ dashboard_plan = None
    /\ rendered = None
    /\ last = NoRun
    /\ call = NoCall
    /\ queue0 = <<>>
    /\ asked = <<>>

\* a file is uploaded: the script reruns with no chat message
Upload(d) ==
    /\ df' = Some(d)
    /\ rendered' = Render(d, dashboard_plan, FALSE)
    /\ last' = Run("upload", "", None, Some(d), None, FALSE, FALSE, "")
    /\ UNCHANGED <<dataset_summary, user_goal, unanswered_questions,
                   awaiting_clarification, dashboard_plan, call, queue0, asked>>

\* Case 1: the turn after a clarification question
TurnAwaiting_KeepsFlag(msg, reply) ==
    /\ ~ IsNone(df)
    /\ awaiting_clarification
    /\ LET r == create_dashboard_plan(The(df), Some(msg), reply)
       IN /\ user_goal' = Some(msg)
          /\ awaiting_clarification' = awaiting_clarification
          /\ dashboard_plan' = IF r.raised THEN dashboard_plan ELSE r.ret
          /\ rendered' = Render(The(df), dashboard_plan', r.raised)
          /\ last' = Run("turn", "create_dashboard_plan", Some(msg), df, r.ret,
                         r.raised, r.contacted, "")
    /\ UNCHANGED <<df, dataset_summary, unanswered_questions, call, queue0, asked>>

TurnAwaiting(msg, reply) ==
    /\ ~ IsNone(df)
    /\ awaiting_clarification
    /\ LET r == create_dashboard_plan(The(df), Some(msg), reply)
       IN /\ user_goal' = Some(msg)
          /\ awaiting_clarification' = FALSE
          /\ dashboard_plan' = IF r.raised THEN dashboard_plan ELSE r.ret
          /\ rendered' = Render(The(df), dashboard_plan', r.raised)
          /\ last' = Run("turn", "create_dashboard_plan", Some(msg), df, r.ret,
                         r.raised, r.contacted, "")
    /\ UNCHANGED <<df, dataset_summary, unanswered_questions, call, queue0, asked>>

\* Case 2, vague message: ask a clarification question
TurnAsk(msg, clar) ==
    /\ ~ IsNone(df)
    /\ ~ awaiting_clarification
    /\ IntentOf[msg] = "analyze"
    /\ IsVague[msg]
    /\ LET a == ask_clarification(unanswered_questions, dataset_summary, The(df), clar)
       IN /\ unanswered_questions' = a.queue
          /\ dataset_summary' = a.summary
          /\ awaiting_clarification' = TRUE
          /\ last' = Run("turn", "ask_clarification", Some(msg), df, None, FALSE,
                         a.contacted, a.ret)
    /\ rendered' = Render(The(df), dashboard_plan, FALSE)
    /\ UNCHANGED <<df, user_goal, dashboard_plan, call, queue0, asked>>

\* Case 2, specific message and a plan exists: revise it
TurnRevise(msg, reply) ==
    /\ ~ IsNone(df)
    /\ ~ awaiting_clarification
    /\ IntentOf[msg] = "analyze"
    /\ ~ IsVague[msg]
    /\ ~ IsNone(dashboard_plan) /\ ~ WantsNew[msg]
    /\ LET r == revise_dashboard_plan(df, dashboard_plan, reply)
       IN /\ dashboard_plan' = r.ret
          /\ rendered' = Render(The(df), dashboard_plan', r.raised)
          /\ last' = Run("turn", "revise_dashboard_plan", Some(msg), df, r.ret,
                         r.raised, r.contacted, "")
    /\ UNCHANGED <<df, dataset_summary, user_goal, unanswered_questions,
                   awaiting_clarification, call, queue0, asked>>

\* Case 2, specific message and no plan, or a new dashboard is wanted
TurnCreate(msg, reply) ==
    /\ ~ IsNone(df)
    /\ ~ awaiting_clarification
    /\ IntentOf[msg] = "analyze"
    /\ ~ IsVague[msg]
    /\ IsNone(dashboard_plan) \/ WantsNew[msg]
    /\ LET r == create_dashboard_plan(The(df), user_goal, reply)
       IN /\ dashboard_plan' = IF r.raised THEN dashboard_plan ELSE r.ret
          /\ rendered' = Render(The(df), dashboard_plan', r.raised)
          /\ last' = Run("turn", "create_dashboard_plan", Some(msg), df, r.ret,
                         r.raised, r.contacted, "")
    /\ UNCHANGED <<df, dataset_summary, user_goal, unanswered_questions,
                   awaiting_clarification, call, queue0, asked>>

\* Case 4 and the final else: no component runs
TurnOther(msg) ==
    /\ ~ IsNone(df)
    /\ ~ awaiting_clarification
    /\ IntentOf[msg] # "analyze"
    /\ last' = Run("turn", "", Some(msg), df, None, FALSE, FALSE, "")
    /\ rendered' = Render(The(df), dashboard_plan, FALSE)
    /\ UNCHANGED <<state_vars, call, queue0, asked>>

Turn(msg) ==
    \/ \E reply \in SessionReplies : TurnAwaiting(msg, reply)
    \/ \E clar \in SessionClarReplies : TurnAsk(msg, clar)
    \/ \E reply \in SessionReplies : TurnRevise(msg, reply)
    \/ \E reply \in SessionReplies : TurnCreate(msg, reply)
    \/ TurnOther(msg)

Next ==
    \/ \E d \in SessionDatasets : Upload(d)
    \/ \E msg \in Messages : Turn(msg)

Spec == Init /\ [][Next]_vars

(***************************************************************************)
(* The functions of ai_analysis.py called directly, as test_app.py does:   *)
(* the caller builds any AnalystState, then calls one function.            *)
(***************************************************************************)
\* a plan with two charts and one KPI, and the plan of a dataset with no numbers
TwoChartPlan ==
    Plan("AI Dashboard", "Generic", "0.95",
         <<GoodChart, Chart("pie", "Sex", "Age", "Age by Sex", "Split ages")>>,
         <<Kpi("Total Fare", "Fare", "sum", "", Null)>>, None)
PriorPlans == {TwoChartPlan, dynamic_fallback(AllCatDf)}

InitApi ==
    /\ df \in {None} \cup {Some(d) : d \in Datasets}
    /\ dataset_summary = EmptySummary
    /\ user_goal \in {None, Some(MsgSpecific)}
    /\ unanswered_questions = <<>>
    /\ awaiting_clarification = FALSE
    /\ dashboard_plan \in {None} \cup {Some(p) : p \in PriorPlans}
    /\ rendered = None
    /\ last = NoRun
    /\ call = NoCall
    /\ queue0 = <<>>
    /\ asked = <<>>

\* create_dashboard_plan(state.df, state): the state is only read
CallCreate(reply) ==
    /\ call.fn = "none"
    /\ ~ IsNone(df)
    /\ LET r == create_dashboard_plan(The(df), user_goal, reply)
       IN call' = Call("create_dashboard_plan", df, dashboard_plan, reply, NoClar,
                       r.ret, r.raised, r.contacted, "")
    /\ UNCHANGED <<state_vars, rendered, last, queue0, asked>>

\* revise_dashboard_plan(state, user_msg): the state is only read
CallRevise(reply) ==
    /\ call.fn = "none"
    /\ LET r == revise_dashboard_plan(df, dashboard_plan, reply)
       IN call' = Call("revise_dashboard_plan", df, dashboard_plan,
                       IF r.contacted THEN reply ELSE NoReply, NoClar,
                       r.ret, r.raised, r.contacted, "")
    /\ UNCHANGED <<state_vars, rendered, last, queue0, asked>>

\* dynamic_fallback(df)
CallFallback ==
    /\ call.fn = "none"
    /\ ~ IsNone(df)
    /\ call' = Call("dynamic_fallback", df, dashboard_plan, NoReply, NoClar,
                    Some(dynamic_fallback(The(df))), FALSE, FALSE, "")
    /\ UNCHANGED <<state_vars, rendered, last, queue0, asked>>

\* a state whose queue the caller has filled
InitAsk ==
    /\ df \in {Some(d) : d \in Datasets}
    /\ dataset_summary = EmptySummary
    /\ user_goal = None
    /\ unanswered_questions \in SeqUpTo(Questions, MaxQueue)
    /\ awaiting_clarification = FALSE
    /\ dashboard_plan = None
    /\ rendered = None
    /\ last = NoRun
    /\ call = NoCall
    /\ queue0 = unanswered_questions
    /\ asked = <<>>

\* ask_clarification(state, user_msg, state.df), possibly several times
CallAsk(clar) ==
    /\ call.fn \in {"none", "ask_clarification"}
    /\ Len(asked) < MaxCalls
    /\ ~ IsNone(df)
    /\ LET a == ask_clarification(unanswered_questions, dataset_summary, The(df), clar)
       IN /\ unanswered_questions' = a.queue
          /\ dataset_summary' = a.summary
          /\ call' = Call("ask_clarification", df, dashboard_plan, NoReply,
                          IF a.contacted THEN clar ELSE NoClar, None, FALSE,
                          a.contacted, a.ret)
          /\ asked' = Append(asked, [ret |-> a.ret, contacted |-> a.contacted,
                                         failed |-> a.contacted /\ clar.kind # "text"])
    /\ UNCHANGED <<df, user_goal, awaiting_clarification, dashboard_plan, rendered,
                   last, queue0>>

\* one call per behaviour: nothing follows a call
NextApi ==
    /\ call.fn = "none"
    /\ \/ \E reply \in Replies : CallCreate(reply)
       \/ \E reply \in Replies : CallRevise(reply)
       \/ CallFallback

SpecApi == InitApi /\ [][NextApi]_vars

NextAsk == \E clar \in ClarReplies : CallAsk(clar)

SpecAsk == InitAsk /\ [][NextAsk]_vars

(***************************************************************************)
(* Properties.  The predicates below restate the data model of the plan    *)
(* (which columns a chart and a KPI name) without the filter's code.       *)
(***************************************************************************)
ColumnNames(d) == {d[i].name : i \in DOMAIN d}
NumericNames(d) ==
    {d[i].name : i \in {j \in DOMAIN d : d[j].dtype \in {"int64", "float64", "bool"}}}
ChartsOf(p) == {p.visualizations[i] : i \in DOMAIN p.visualizations}
KpisOf(p) == {p.kpis[i] : i \in DOMAIN p.kpis}
\* every chart axis and every KPI column of plan p is a column of d
RefersOnlyTo(p, d) ==
    /\ \A c \in ChartsOf(p) : c.x_axis \in ColumnNames(d) /\ c.y_axis \in ColumnNames(d)
    /\ \A k \in KpisOf(p) : k.column \in ColumnNames(d)
\* every KPI of p that does not count is on a numeric column of d
KpisTypeSafe(p, d) ==
    \A k \in KpisOf(p) : k.aggregation # "count" => k.column \in NumericNames(d)
PlanReturned ==
    /\ last.called \in {"create_dashboard_plan", "revise_dashboard_plan"}
    /\ ~ IsNone(last.ret)

\* C1: every chart and every KPI of a plan returned by the Plan Generator or the
\* Plan Reviser names only columns of the dataset the operation ran against.
C1_ValidationSoundness ==
    PlanReturned => RefersOnlyTo(The(last.ret), The(last.df))

\* C2: every KPI of a returned plan whose aggregation is not count is on a
\* numeric column of the dataset the operation ran against.
C2_KpiTypeSafety ==
    PlanReturned => KpisTypeSafe(The(last.ret), The(last.df))

\* C10: the plan handed to render_dashboard names only columns of the dataset
\* it is rendered against.
C10_RenderedPlanMatchesDataset ==
    ~ IsNone(rendered) => RefersOnlyTo(The(rendered).plan, The(rendered).df)

(***************************************************************************)
(* Properties of the functions called directly.                            *)
(***************************************************************************)
\* what the data model asks of a chart and of a KPI, for dataset d
ChartFits(c, d) == c.x_axis \in ColumnNames(d) /\ c.y_axis \in ColumnNames(d)
KpiFits(k, d) ==
    /\ k.column \in ColumnNames(d)
    /\ k.aggregation = "count" \/ k.column \in NumericNames(d)
\* an entry the filter cannot evaluate: a list where a column name belongs
IllShaped(o) ==
    \/ \E i \in DOMAIN ListOf(o.visualizations) :
          ListOf(o.visualizations)[i].x_axis = Unhashable
    \/ \E i \in DOMAIN ListOf(o.kpis) : ListOf(o.kpis)[i].column = Unhashable
FittingCharts(o, d) == SelectSeq(ListOf(o.visualizations), LAMBDA c : ChartFits(c, d))
FittingKpis(o, d) == SelectSeq(ListOf(o.kpis), LAMBDA k : KpiFits(k, d))
IsEmptyPlan(p) == p.visualizations = <<>> /\ p.kpis = <<>>
\* columns pandas treats as numbers, and the others
HasNumberColumn(d) == \E i \in DOMAIN d : d[i].dtype \in {"int64", "float64"}
HasCategoricalColumn(d) == \E i \in DOMAIN d : d[i].dtype = "object"

\* C3: for a dataset with a numeric or a categorical column dynamic_fallback
\* returns a chart or a KPI.
C3_FallbackNonEmpty ==
    call.fn = "dynamic_fallback" =>
        ((HasNumberColumn(The(call.df)) \/ HasCategoricalColumn(The(call.df)))
            => ~ IsEmptyPlan(The(call.ret)))

\* C4: create_dashboard_plan never raises: every call returns a plan.
C4_GeneratorNeverRaises ==
    call.fn = "create_dashboard_plan" => ~ call.raised /\ ~ IsNone(call.ret)

\* the reply gives the Plan Generator nothing it may keep
NothingUsable(reply, d) ==
    \/ reply.kind \in {"raise", "malformed", "nojson", "badjson"}
    \/ /\ reply.kind = "json"
       /\ \/ IsNone(reply.obj.visualizations)
          \/ FittingCharts(reply.obj, d) = <<>>
          \/ FittingKpis(reply.obj, d) = <<>>

\* C5: when the model call fails, the reply has no JSON object, the object
\* lacks "visualizations", or no chart or no KPI survives the filter,
\* create_dashboard_plan returns the charts and KPIs of dynamic_fallback under
\* the name "Dynamic Fallback Dashboard" with confidence 0.0; it never returns
\* the placeholder, nor a model plan with only charts or only KPIs.
C5_FallbackOnUnusableReply ==
    call.fn = "create_dashboard_plan" =>
        /\ NothingUsable(call.reply, The(call.df)) =>
              /\ ~ call.raised
              /\ ~ IsNone(call.ret)
              /\ The(call.ret).template_name = "Dynamic Fallback Dashboard"
              /\ The(call.ret).confidence = "0.0"
              /\ The(call.ret).visualizations
                    = dynamic_fallback(The(call.df)).visualizations
              /\ The(call.ret).kpis = dynamic_fallback(The(call.df)).kpis
        /\ ~ IsNone(call.ret) =>
              /\ The(call.ret).template_name # "Fallback Dashboard"
              /\ The(call.ret).template_name # "Dynamic Fallback Dashboard"
                    => The(call.ret).visualizations # <<>> /\ The(call.ret).kpis # <<>>
\* a model plan whose charts survive and whose KPIs do not is replaced
C5_Witness ==
    /\ call.fn = "create_dashboard_plan"
    /\ call.reply.kind = "json"
    /\ ~ IllShaped(call.reply.obj)
    /\ FittingCharts(call.reply.obj, The(call.df)) # <<>>
    /\ ListOf(call.reply.obj.kpis) # <<>>
    /\ FittingKpis(call.reply.obj, The(call.df)) = <<>>
    /\ ~ IsNone(call.ret)
    /\ The(call.ret).template_name = "Dynamic Fallback Dashboard"

\* the KPIs a and b agree but for a unit filled in by the filter
SameButUnit(a, b) ==
    /\ Len(a) = Len(b)
    /\ \A i \in DOMAIN a : [a[i] EXCEPT !.unit = b[i].unit] = b[i]

\* C6: when nothing of a revision survives the filter, revise_dashboard_plan
\* returns the prior plan P unchanged; a revision that keeps a chart or a KPI
\* is returned in its place.
C6_RevisionNonDestructive ==
    (/\ call.fn = "revise_dashboard_plan"
     /\ call.contacted
     /\ call.reply.kind = "json"
     /\ ~ IllShaped(call.reply.obj)) =>
        LET d == The(call.df)
            o == call.reply.obj
        IN IF FittingCharts(o, d) = <<>> /\ FittingKpis(o, d) = <<>>
           THEN call.ret = call.prior /\ dashboard_plan = call.prior
           ELSE /\ ~ IsNone(call.ret)
                /\ The(call.ret).template_name = o.template_name
                /\ The(call.ret).visualizations = FittingCharts(o, d)
                /\ SameButUnit(The(call.ret).kpis, FittingKpis(o, d))
\* a revision with charts and KPIs, none of which fits the dataset
C6_Witness ==
    /\ call.fn = "revise_dashboard_plan"
    /\ call.reply.kind = "json"
    /\ ListOf(call.reply.obj.visualizations) # <<>>
    /\ ListOf(call.reply.obj.kpis) # <<>>
    /\ ~ IllShaped(call.reply.obj)
    /\ FittingCharts(call.reply.obj, The(call.df)) = <<>>
    /\ FittingKpis(call.reply.obj, The(call.df)) = <<>>
    /\ call.prior = Some(TwoChartPlan)
    /\ call.ret = Some(TwoChartPlan)

\* C7: when the model call raises, the reply has no JSON object, or the JSON
\* is unparseable or ill-shaped, revise_dashboard_plan returns the prior plan
\* and raises nothing; without a dataset or a plan it returns the current plan
\* without contacting the model.
C7_RevisionFailureSafe ==
    call.fn = "revise_dashboard_plan" =>
        /\ ~ call.raised
        /\ (IsNone(call.df) \/ IsNone(call.prior))
              => call.ret = call.prior /\ ~ call.contacted
        /\ (/\ call.contacted
            /\ \/ call.reply.kind \in {"raise", "malformed", "nojson", "badjson"}
               \/ call.reply.kind = "json" /\ IllShaped(call.reply.obj))
              => call.ret = call.prior /\ dashboard_plan = call.prior
\* an ill-shaped revision that also holds a KPI fitting the dataset
C7_Witness ==
    /\ call.fn = "revise_dashboard_plan"
    /\ call.contacted
    /\ call.reply.kind = "json"
    /\ IllShaped(call.reply.obj)
    /\ FittingKpis(call.reply.obj, The(call.df)) # <<>>
    /\ call.prior = Some(TwoChartPlan)
    /\ call.ret = call.prior

(***************************************************************************)
(* Properties of ask_clarification.                                        *)
(***************************************************************************)
Min(a, b) == IF a <= b THEN a ELSE b

\* C8: with a queue [q1..qn], n >= 1, the next n calls of ask_clarification
\* return q1..qn in that order, each call removes the head of the queue, and
\* none of them contacts the model.
C8_QueueFifo ==
    LET n == Len(queue0)
        k == Len(asked)
    IN /\ \A i \in 1..Min(k, n) : asked[i].ret = queue0[i] /\ ~ asked[i].contacted
       /\ k <= n => unanswered_questions = SubSeq(queue0, k + 1, n)
\* two different questions were queued and two calls have been made
C8_Witness ==
    /\ Len(queue0) = 2
    /\ queue0[1] # queue0[2]
    /\ Len(asked) = 2
    /\ asked[2].ret = queue0[2]
    /\ unanswered_questions = <<>>

\* C9: with an empty queue, a model call that raises or returns a malformed
\* response makes ask_clarification return the generic question and leave
\* the queue empty; nothing is raised.
C9_ClarificationFailureSafe ==
    [][(/\ unanswered_questions = <<>>
        /\ call'.fn = "ask_clarification"
        /\ call'.clar.kind \in {"raise", "malformed"})
          => /\ call'.question = FallbackQuestion
             /\ unanswered_questions' = <<>>
             /\ ~ call'.raised]_vars
\* the queue was drained, then the model returned a malformed response
C9_Witness ==
    /\ call.fn = "ask_clarification"
    /\ call.contacted
    /\ call.clar.kind = "malformed"
    /\ call.question = FallbackQuestion
    /\ unanswered_questions = <<>>
    /\ Len(asked) > Len(queue0)
    /\ Len(queue0) > 0

(***************************************************************************)
(* Properties of the turn loop.                                            *)
(***************************************************************************)
Components == {"ask_clarification", "create_dashboard_plan", "revise_dashboard_plan"}

\* C11: every turn runs one of the Clarification Generator, the Plan
\* Generator and the Plan Reviser; a message classified "clarify" leads to
\* the Clarification Generator and one classified "revise" to the Plan Reviser.
C11_TurnRunsOneComponent ==
    last.op = "turn" =>
        /\ last.called \in Components
        /\ IntentOf[The(last.msg)] = "clarify" => last.called = "ask_clarification"
        /\ IntentOf[The(last.msg)] = "revise" => last.called = "revise_dashboard_plan"

\* C12: the awaiting-clarification flag is raised only by a turn that was not
\* awaiting, whose message is classified analyze and judged vague, and which
\* asks the question; the next turn after it (uploads in between leave the flag
\* alone) clears the flag, stores its message as user_goal and calls the Plan
\* Generator, whatever its message; so no two turns in a row end awaiting and
\* no two questions are asked in a row.
C12_ClarificationRoundTrip ==
    [][ /\ (awaiting_clarification' /\ ~ awaiting_clarification) =>
              /\ last'.op = "turn"
              /\ last'.called = "ask_clarification"
              /\ IntentOf[The(last'.msg)] = "analyze"
              /\ IsVague[The(last'.msg)]
        /\ (awaiting_clarification /\ last'.op = "turn") =>
              /\ ~ awaiting_clarification'
              /\ user_goal' = last'.msg
              /\ last'.called = "create_dashboard_plan"
        /\ (last'.op = "turn" /\ last'.called = "ask_clarification") =>
              /\ ~ awaiting_clarification
              /\ awaiting_clarification'
        /\ last'.op = "upload" => awaiting_clarification' = awaiting_clarification
      ]_vars

\* the answer to a question was itself vague, or asked for a revision while a
\* plan existed, and still went to the Plan Generator
C12_Witness ==
    /\ last.op = "turn"
    /\ last.called = "create_dashboard_plan"
    /\ ~ IsNone(last.msg)
    /\ \/ IsVague[The(last.msg)]
       \/ IntentOf[The(last.msg)] = "revise"
    /\ user_goal = last.msg
    /\ ~ awaiting_clarification
    /\ ~ IsNone(dashboard_plan)

\* no call so far ended in the except branch
AllSuccessful == \A i \in 1..Len(asked) : ~ asked[i].failed

\* C13: from an empty queue and while every call succeeds, the calls alternate:
\* the odd ones contact the model and leave their question in the queue, the
\* even ones return the previous call's question without contacting the model
\* and empty the queue; the queue never holds more than one question.
C13_QuestionAskedTwice ==
    (queue0 = <<>> /\ AllSuccessful) =>
        /\ \A i \in 1..Len(asked) :
              /\ asked[i].contacted <=> (i % 2 = 1)
              /\ (i % 2 = 0) => asked[i].ret = asked[i - 1].ret
        /\ Len(unanswered_questions) <= 1
        /\ unanswered_questions =
              IF Len(asked) % 2 = 1 THEN <<asked[Len(asked)].ret>> ELSE <<>>

\* a question came from the model, and the next call returned it again from the
\* queue and emptied the queue
C13_Witness ==
    /\ queue0 = <<>>
    /\ AllSuccessful
    /\ Len(asked) = 2
    /\ asked[1].contacted
    /\ ~ asked[2].contacted
    /\ asked[2].ret = asked[1].ret
    /\ unanswered_questions = <<>>

====
